---- MODULE Spec2Model ----
(***************************************************************************)
(* A model of src/crawler.py (PIPACrawler): parse_image_ids,               *)
(* get_image_urls, download_image and crawl, with the web server and the   *)
(* output directory as the environment.                                    *)
(*                                                                         *)
(* Strings the code computes on (input lines, result messages) are         *)
(* sequences of one-character strings, so that split, lower and the        *)
(* substring test are computed as the code computes them.                  *)
(***************************************************************************)
EXTENDS Integers, Sequences, FiniteSets, TLC

\* ------------------------------------------------------------------ bounds

\* Longest input file, in lines.
MaxLines == 2

\* Largest --limit value tried.
MaxLimit == 2

\* PIPACrawler(max_retries=...): the retry count the runs are checked with.
MaxRetries == 2

\* ------------------------------------------------------- program constants

\* PIPACrawler(delay=1): seconds, the unit of every sleep.
delay == 1

max_retries == MaxRetries

\* ----------------------------------------------------------------- strings

\* str.isspace for the characters of the model's alphabet.
IsSpace(c) == c \in {" ", "\t", "\n"}

RECURSIVE lstrip(_)
lstrip(s) ==
    IF s # <<>> /\ IsSpace(Head(s)) THEN lstrip(Tail(s)) ELSE s

RECURSIVE rstrip(_)
rstrip(s) ==
    IF s # <<>> /\ IsSpace(s[Len(s)]) THEN rstrip(SubSeq(s, 1, Len(s) - 1)) ELSE s

\* str.strip()
strip(s) == rstrip(lstrip(s))

\* str.split() with no separator: the maximal runs of non-whitespace.
\* cur is the token being read, acc the tokens already closed.
RECURSIVE SplitFrom(_, _, _)
SplitFrom(s, cur, acc) ==
    IF s = <<>>
    THEN IF cur = <<>> THEN acc ELSE Append(acc, cur)
    ELSE IF IsSpace(Head(s))
         THEN SplitFrom(Tail(s), <<>>, IF cur = <<>> THEN acc ELSE Append(acc, cur))
         ELSE SplitFrom(Tail(s), Append(cur, Head(s)), acc)

split(s) == SplitFrom(s, <<>>, <<>>)

\* str.lower() on the letters the result messages are written in.
LowerChar(c) ==
    CASE c = "C" -> "c"
      [] c = "F" -> "f"
      [] c = "U" -> "u"
      [] c = "R" -> "r"
      [] c = "L" -> "l"
      [] OTHER -> c

lower(s) == [i \in 1..Len(s) |-> LowerChar(s[i])]

\* needle in hay (Python's substring test); h is hay, evaluated once
Contains(hay, needle) ==
    \E h \in {hay} :
        \E i \in 0..(Len(h) - Len(needle)) :
            SubSeq(h, i + 1, i + Len(needle)) = needle

\* str.startswith(prefix)
startswith(s, prefix) == Len(s) >= Len(prefix) /\ SubSeq(s, 1, Len(prefix)) = prefix

\* ---------------------------------------------------- _ensure_url_scheme
\* _ensure_url_scheme as it would be without the branch for '//'.
_ensure_url_scheme_NoRelative(u) ==
    IF ~(startswith(u, <<"h", "t", "t", "p", ":", "/", "/">>) \/ startswith(u, <<"h", "t", "t", "p", "s", ":", "/", "/">>))
    THEN <<"h", "t", "t", "p", "s", ":", "/", "/">> \o u
    ELSE u

_ensure_url_scheme(u) ==
    IF startswith(u, <<"/", "/">>)
    THEN <<"h", "t", "t", "p", "s", ":">> \o u
    ELSE IF ~(startswith(u, <<"h", "t", "t", "p", ":", "/", "/">>) \/ startswith(u, <<"h", "t", "t", "p", "s", ":", "/", "/">>))
         THEN <<"h", "t", "t", "p", "s", ":", "/", "/">> \o u
         ELSE u

\* ------------------------------------------------------------ the limit
\* limit is None or an int: {} is None, {n} is the int n.
None == {}
IntOf(limit) == CHOOSE n \in limit : TRUE

\* Python truthiness of limit: None and 0 are false.
Truthy(limit) == limit # None /\ IntOf(limit) # 0

\* ------------------------------------------------------ parse_image_ids
\* ParseFrom as it would be if one field were enough for a record.
RECURSIVE ParseFrom_OneField(_, _, _, _)
ParseFrom_OneField(f, limit, i, image_ids) ==
    IF i >= Len(f) THEN image_ids
    ELSE IF Truthy(limit) /\ i >= IntOf(limit) THEN image_ids
    ELSE LET parts == split(strip(f[i + 1]))
         IN  ParseFrom_OneField(f, limit, i + 1,
                 IF Len(parts) >= 1
                 THEN Append(image_ids, [idx |-> i, photo_id |-> parts[Len(parts)]])
                 ELSE image_ids)

\* ParseFrom as it would be if a record's position were its place among
\* the records.
RECURSIVE ParseFrom_RecordIndex(_, _, _, _)
ParseFrom_RecordIndex(f, limit, i, image_ids) ==
    IF i >= Len(f) THEN image_ids
    ELSE IF Truthy(limit) /\ i >= IntOf(limit) THEN image_ids
    ELSE LET parts == split(strip(f[i + 1]))
         IN  ParseFrom_RecordIndex(f, limit, i + 1,
                 IF Len(parts) >= 2
                 THEN Append(image_ids, [idx |-> Len(image_ids), photo_id |-> parts[2]])
                 ELSE image_ids)

\* The for loop over enumerate(f), from line i (0-based) on.
RECURSIVE ParseFrom(_, _, _, _)
ParseFrom(f, limit, i, image_ids) ==
    IF i >= Len(f) THEN image_ids
    ELSE IF Truthy(limit) /\ i >= IntOf(limit) THEN image_ids
    ELSE LET parts == split(strip(f[i + 1]))
         IN  ParseFrom(f, limit, i + 1,
                 IF Len(parts) >= 2
                 THEN Append(image_ids, [idx |-> i, photo_id |-> parts[2]])
                 ELSE image_ids)

parse_image_ids(f, limit) == ParseFrom(f, limit, 0, <<>>)

\* ------------------------------------------------------------- messages
\* download_image's two failure results, and the needles crawl looks for.
NoUrlsMsg ==
    <<"C", "o", "u", "l", "d", " ", "n", "o", "t", " ", "f", "i", "n", "d", " ", "a", "n", "y", " ", "i", "m", "a", "g", "e", " ", "U", "R", "L", "s">>

AllFailedMsg ==
    <<"F", "a", "i", "l", "e", "d", " ", "t", "o", " ", "d", "o", "w", "n", "l", "o", "a", "d", " ", "a", "f", "t", "e", "r", " ", "t", "r", "y", "i", "n", "g", " ", "a", "l", "l", " ", "a", "v", "a", "i", "l", "a", "b", "l", "e", " ", "U", "R", "L", "s">>

PrivateNeedle == <<"p", "r", "i", "v", "a", "t", "e">>

NotFoundNeedle == <<"n", "o", "t", " ", "f", "o", "u", "n", "d">>

\* f'{idx:05d}.jpg': the decimal digits of idx, zero-padded to five.
Digit(d) == <<"0", "1", "2", "3", "4", "5", "6", "7", "8", "9">>[d + 1]

RECURSIVE Decimal(_)
Decimal(n) == IF n < 10 THEN <<Digit(n)>> ELSE Append(Decimal(n \div 10), Digit(n % 10))

RECURSIVE ZeroPad(_, _)
ZeroPad(s, width) == IF Len(s) >= width THEN s ELSE ZeroPad(<<"0">> \o s, width)

filename(idx) == ZeroPad(Decimal(idx), 5) \o <<".", "j", "p", "g">>

\* ------------------------------------------------------- the web server
\* A URL as get_image_urls reads it (urlparse(url).path.split('/') and the
\* file name's split('_')): the number of path parts, the part taken as the
\* server, the number of '_' parts of the file name and the part taken as
\* the secret.
UrlCdn  == [parts |-> 3, server |-> "65535", fparts |-> 2, secret |-> "abc"]
UrlFlat == [parts |-> 2, server |-> "", fparts |-> 1, secret |-> ""]
UrlNoSecret == [parts |-> 3, server |-> "65535", fparts |-> 1, secret |-> ""]

Urls == {UrlCdn, UrlFlat, UrlNoSecret}

\* Link texts a sizes page may show: one that size_priority lists, one that
\* it does not.
SizeNames == {"Large", "Original"}

\* Longest list of size links on a sizes page.
MaxSizeOptions == 2

\* An HTTP 200 page without the private marker, as the selectors see it:
\* img: the src of the img[src*="staticflickr"] tag (none or one),
\* link: whether an a[href*="/sizes/"] exists,
\* og, tw: the content of the og:image and twitter:image meta tags.
MaybeUrl(S) == {<<>>} \cup {<<u>> : u \in S}

Pages ==
    [img : MaybeUrl({UrlCdn, UrlFlat}), link : BOOLEAN,
     og : MaybeUrl(Urls), tw : MaybeUrl({UrlCdn, UrlFlat})]

NoPage == [img |-> <<>>, link |-> FALSE, og |-> <<>>, tw |-> <<>>]

\* The answer to the request for one size link's page: a transport
\* exception, a status other than 200, a 200 page without img#allsizes-photo,
\* or a 200 page with it.
SizeOptions ==
    [name : {"Large"}, status : {"exc", "other", "noimg"}, url : {<<>>}]
    \cup [name : SizeNames, status : {"img"}, url : {<<u>> : u \in {UrlCdn, UrlFlat}}]

RECURSIVE SeqsUpTo(_, _)
SeqsUpTo(S, n) ==
    IF n = 0 THEN {<<>>}
    ELSE LET shorter == SeqsUpTo(S, n - 1)
         IN  shorter \cup {Append(q, x) : q \in {r \in shorter : Len(r) = n - 1}, x \in S}

\* The answer to the request for the sizes page, with the answers its size
\* links will get.
SizesAnswers ==
    [status : {"exc", "other"}, options : {<<>>}]
    \cup [status : {"ok"}, options : SeqsUpTo(SizeOptions, MaxSizeOptions)]

NoSizesAnswer == [status |-> "none", options |-> <<>>]

\* The answer to the page request of one attempt.
PageAnswers ==
    [status : {"exc", "404", "other", "private"}, page : {NoPage}]
    \cup [status : {"ok"}, page : Pages]

\* The pages of a plain site: no staticflickr img tag, no sizes link, at
\* most an og:image tag.
PlainPages == {NoPage, [NoPage EXCEPT !.og = <<UrlFlat>>]}

PlainPageAnswers == {a \in PageAnswers : a.page \in PlainPages /\ a.status # "exc"}

\* ------------------------------------------------------- get_image_urls
\* available_sizes is a dict: a sequence of [name, url] in insertion order.
Names(sizes) == [i \in 1..Len(sizes) |-> sizes[i].name]

HasName(sizes, name) == \E i \in 1..Len(sizes) : sizes[i].name = name

\* available_sizes[name] = url
DictSet(sizes, name, url) ==
    IF HasName(sizes, name)
    THEN [i \in 1..Len(sizes) |->
            IF sizes[i].name = name THEN [name |-> name, url |-> url] ELSE sizes[i]]
    ELSE Append(sizes, [name |-> name, url |-> url])

\* The suffixes dict of Method 1, in its order.
Method1Names == <<"Large", "Medium 800", "Medium 640", "Medium", "Small 320", "Small">>

\* Method 1: the sizes built from the page's staticflickr img tag.
Method1(page) ==
    IF page.img = <<>> THEN <<>>
    ELSE [i \in 1..Len(Method1Names) |-> [name |-> Method1Names[i], url |-> page.img[1]]]

\* Method 2's loop over size_options from option i on. exc: a request raised.
\* reqs counts the requests made.
RECURSIVE FollowSizes(_, _, _, _)
FollowSizes(options, i, sizes, reqs) ==
    IF i > Len(options) THEN [exc |-> FALSE, sizes |-> sizes, reqs |-> reqs]
    ELSE LET o == options[i]
         IN  IF o.status = "exc"
             THEN [exc |-> TRUE, sizes |-> sizes, reqs |-> reqs + 1]
             ELSE FollowSizes(options, i + 1,
                      IF o.status = "img" THEN DictSet(sizes, o.name, o.url[1]) ELSE sizes,
                      reqs + 1)

\* Method 2: follow the "view all sizes" link when Method 1 found nothing.
Method2(page, sizes, answer) ==
    IF sizes = <<>> /\ page.link
    THEN IF answer.status = "exc" THEN [exc |-> TRUE, sizes |-> sizes, reqs |-> 1]
         ELSE IF answer.status = "ok" THEN FollowSizes(answer.options, 1, sizes, 1)
         ELSE [exc |-> FALSE, sizes |-> sizes, reqs |-> 1]
    ELSE [exc |-> FALSE, sizes |-> sizes, reqs |-> 0]

\* Method3 as it would be if the meta tags were read in every case.
Method3_Always(page, sizes) ==
    LET withOg == IF page.og # <<>> THEN DictSet(sizes, "OpenGraph", page.og[1]) ELSE sizes
    IN  IF page.tw # <<>> THEN DictSet(withOg, "TwitterCard", page.tw[1]) ELSE withOg

\* Method 3: the meta tags, when nothing was found so far.
Method3(page, sizes) ==
    IF sizes = <<>>
    THEN LET withOg == IF page.og # <<>> THEN DictSet(sizes, "OpenGraph", page.og[1]) ELSE sizes
         IN  IF page.tw # <<>> THEN DictSet(withOg, "TwitterCard", page.tw[1]) ELSE withOg
    ELSE sizes

\* Method 4's loop over available_sizes.values() from entry i on: server and
\* secret as the loop leaves them.
RECURSIVE ServerSecret(_, _, _, _)
ServerSecret(sizes, i, server, secret) ==
    IF i > Len(sizes) THEN [server |-> server, secret |-> secret]
    ELSE LET u == sizes[i].url
         IN  IF u.parts >= 3
             THEN IF u.fparts >= 2
                  THEN [server |-> u.server, secret |-> u.secret]
                  ELSE ServerSecret(sizes, i + 1, u.server, secret)
             ELSE ServerSecret(sizes, i + 1, server, secret)

\* Method 4: add the reconstructed "Large HD" URL.
Method4(sizes) ==
    LET ss == ServerSecret(sizes, 1, "", "")
    IN  IF ss.server # "" /\ ss.secret # ""
        THEN DictSet(sizes, "Large HD", UrlCdn)
        ELSE sizes

\* What one attempt makes of a 200, non-private page: exc when a follow-up
\* request raised (the attempt is then retried and what it had found is
\* dropped), else the sizes found. got is available_sizes as Methods 1 to 3
\* left it.
Extract(page, answer) ==
    LET m2 == Method2(page, Method1(page), answer)
        m3 == Method3(page, m2.sizes)
    IN  IF m2.exc THEN [exc |-> TRUE, sizes |-> <<>>, reqs |-> m2.reqs, got |-> <<>>]
        ELSE [exc |-> FALSE, sizes |-> Method4(m3), reqs |-> m2.reqs, got |-> m3]

\* ------------------------------------------------------- download_image
size_priority ==
    <<"Large HD", "Large", "Medium 800", "Medium 640",
      "Medium", "OpenGraph", "TwitterCard", "Small 320", "Small">>

InSeq(x, q) == \E i \in 1..Len(q) : q[i] = x

RECURSIVE Filter(_, _, _)
Filter(q, keep, other) ==
    IF q = <<>> THEN <<>>
    ELSE IF InSeq(Head(q), other) = keep
         THEN <<Head(q)>> \o Filter(Tail(q), keep, other)
         ELSE Filter(Tail(q), keep, other)

\* PriorityCandidates as it would be if the first loop went through
\* available_urls in the dict's order.
PriorityCandidates_DictOrder(names) == Filter(names, TRUE, size_priority)

\* The names the first loop tries, in its order: those of size_priority
\* that available_urls holds.
PriorityCandidates(names) == Filter(size_priority, TRUE, names)

\* The names the second loop tries: those available_urls holds that
\* size_priority does not, in the dict's order.
RemainingCandidates(names) == Filter(names, FALSE, size_priority)

Candidates(names) == PriorityCandidates(names) \o RemainingCandidates(names)

\* A file of the output directory: none (no such file), image (Image.open
\* succeeds and gives size), garbage (not empty, Image.open raises), empty
\* (zero bytes).
NoFile == [kind |-> "none", size |-> <<0, 0>>]
Dims == {<<640, 480>>, <<1024, 768>>}
ImageFiles == [kind : {"image"}, size : Dims]
BrokenFiles == [kind : {"garbage", "empty"}, size : {<<0, 0>>}]

\* The answer to one image request. cut: the body's stream raised after the
\* bytes described by body and size had been written.
ImageAnswers ==
    [status : {"exc", "410", "other"}, body : {"none"}, size : {<<0, 0>>}, cut : {FALSE}]
    \cup [status : {"ok"}, body : {"image"}, size : Dims, cut : BOOLEAN]
    \cup [status : {"ok"}, body : {"garbage", "empty"}, size : {<<0, 0>>}, cut : BOOLEAN]

\* A plain site's image answers: never a transport exception, and a body is
\* a complete image of one size.
PlainImageAnswers ==
    {a \in ImageAnswers : /\ a.status # "exc"
                          /\ ~a.cut
                          /\ a.body \in {"none", "image"}
                          /\ a.size \in {<<0, 0>>, <<640, 480>>}}

\* ------------------------------------------------------------------ state
VARIABLES
    site,           \* the web site the run meets: "full" or "plain"
    data_file,      \* the lines of self.data_file
    limit,          \* crawl's limit argument
    num_workers,    \* crawl's num_workers argument
    files,          \* the output directory: file name -> file
    cpc,            \* where crawl is: "start", "run", "done"
    image_ids,      \* crawl's image_ids
    results,        \* crawl's results dict
    th,             \* one download_image call per record of image_ids
    inter_sleeps,   \* the time.sleep(self.delay) calls crawl itself has made
    url,            \* a URL string as a page gives it
    ensured         \* the values of _ensure_url_scheme applied to url, and to its own value

vars == <<site, data_file, limit, num_workers, files, cpc, image_ids, results, th, inter_sleeps,
          url, ensured>>

NoRet == [success |-> FALSE, result |-> <<>>, resolution |-> <<0, 0>>]

\* What the call's latest step saw and did: the answer it got (resp), the
\* page it parsed, the follow-up requests it made (aux), available_sizes
\* before Method 4 (got) and the time it slept before going on.
NoObs == [resp |-> "none", page |-> NoPage, aux |-> 0, got |-> <<>>, slept |-> 0]

\* A download_image call that has not started. Besides the call's locals:
\* found, the kind of file at the target when the call began; page_reqs and
\* img_reqs, the page and image requests made so far; url_reqs, the image
\* requests made to the current URL.
Pending ==
    [pc |-> "pending", attempt |-> 0, ci |-> 0, urls |-> <<>>, ret |-> NoRet,
     obs |-> NoObs, found |-> "none", page_reqs |-> 0, img_reqs |-> 0, url_reqs |-> 0]

Tasks == 1..Len(image_ids)

Running == {k \in Tasks : th[k].pc \in {"resolve", "download"}}

Target(k) == filename(image_ids[k].idx)

\* ------------------------------------------------------------- crawl
\* crawl up to the mode switch: parse, total, the results dict.
Parse ==
    /\ cpc = "start"
    /\ image_ids' = parse_image_ids(data_file, limit)
    /\ results' = [total |-> Len(image_ids'), success |-> 0, failed |-> 0,
                   private |-> 0, not_found |-> 0, resolutions |-> <<>>]
    /\ th' = [k \in 1..Len(image_ids') |-> Pending]
    /\ cpc' = "run"
    /\ UNCHANGED <<url, ensured, site, data_file, limit, num_workers, files, inter_sleeps>>

\* Classify as it would be with two ifs in place of if and elif.
Classify_Both(res, result) ==
    LET failed == [res EXCEPT !.failed = @ + 1]
        private == IF Contains(lower(result), PrivateNeedle)
                   THEN [failed EXCEPT !.private = @ + 1] ELSE failed
    IN  IF Contains(lower(result), NotFoundNeedle)
        THEN [private EXCEPT !.not_found = @ + 1]
        ELSE private

\* The failure branch of the aggregation: failed, then the sub-class read
\* from the result string.
Classify(res, result) ==
    LET failed == [res EXCEPT !.failed = @ + 1]
    IN  IF Contains(lower(result), PrivateNeedle)
        THEN [failed EXCEPT !.private = @ + 1]
        ELSE IF Contains(lower(result), NotFoundNeedle)
             THEN [failed EXCEPT !.not_found = @ + 1]
             ELSE failed

\* The body of the try around one record's outcome, and its except clause.
Tally(res, rec, t) ==
    IF t.pc = "raised" THEN [res EXCEPT !.failed = @ + 1]
    ELSE IF t.ret.success
         THEN [res EXCEPT !.success = @ + 1,
                          !.resolutions = Append(@, <<rec.idx, rec.photo_id, t.ret.resolution>>)]
         ELSE Classify(res, t.ret.result)

\* ------------------------------------------------------- download_image
\* Sequential mode calls download_image for a record once the one before it
\* is aggregated; the pool runs at most num_workers calls at a time and
\* takes the submitted records in order.
CanStart(k) ==
    IF num_workers > 1
    THEN /\ Cardinality(Running) < num_workers
         /\ \A j \in 1..(k - 1) : th[j].pc # "pending"
    ELSE \A j \in 1..(k - 1) : th[j].pc = "collected"

Returned(t, obs, ret) == [t EXCEPT !.pc = "returned", !.obs = obs, !.ret = ret]

\* Enter as it would be without the check of an existing file.
Enter_NoSkip(t, name, f) ==
    [t EXCEPT !.found = f.kind, !.pc = "resolve", !.attempt = 0,
              !.obs = [NoObs EXCEPT !.resp = "entered"]]

\* Enter as it would be if any existing file counted as downloaded.
Enter_AnyFileCounts(t, name, f) ==
    IF f.kind # "none"
    THEN Returned([t EXCEPT !.found = f.kind], [NoObs EXCEPT !.resp = "exists"],
                  [success |-> TRUE, result |-> name, resolution |-> f.size])
    ELSE [t EXCEPT !.found = f.kind, !.pc = "resolve", !.attempt = 0,
                   !.obs = [NoObs EXCEPT !.resp = "entered"]]

\* download_image up to the call of get_image_urls: the target's name and
\* the check of an existing file.
Enter(t, name, f) ==
    LET t1 == [t EXCEPT !.found = f.kind]
    IN  IF f.kind = "image"
        THEN Returned(t1, [NoObs EXCEPT !.resp = "exists"],
                      [success |-> TRUE, result |-> name, resolution |-> f.size])
        ELSE IF max_retries = 0
             THEN Returned(t1, [NoObs EXCEPT !.resp = "no_attempt"],
                           [success |-> FALSE, result |-> NoUrlsMsg, resolution |-> <<0, 0>>])
             ELSE [t1 EXCEPT !.pc = "resolve", !.attempt = 0,
                             !.obs = [NoObs EXCEPT !.resp = "entered"]]

Begin(k) ==
    /\ cpc = "run"
    /\ th[k].pc = "pending"
    /\ CanStart(k)
    /\ th' = [th EXCEPT ![k] = Enter(@, Target(k), files[Target(k)])]
    /\ UNCHANGED <<url, ensured, site, data_file, limit, num_workers, files, cpc, image_ids, results, inter_sleeps>>

\* get_image_urls returned None: download_image returns its first failure.
Unresolved(t, obs) ==
    Returned(t, obs, [success |-> FALSE, result |-> NoUrlsMsg, resolution |-> <<0, 0>>])

\* RetryPage as it would be with a constant backoff.
RetryPage_FlatSleep(t, obs) ==
    LET slept == [obs EXCEPT !.slept = delay]
    IN  IF t.attempt + 1 < max_retries
        THEN [t EXCEPT !.attempt = @ + 1, !.obs = slept]
        ELSE Returned(t, slept, [success |-> FALSE, result |-> NoUrlsMsg,
                                 resolution |-> <<0, 0>>])

\* A failed attempt of get_image_urls: the sleep, then the next attempt or
\* the return after the loop.
RetryPage(t, obs) ==
    LET slept == [obs EXCEPT !.slept = delay * (t.attempt + 1)]
    IN  IF t.attempt + 1 < max_retries
        THEN [t EXCEPT !.attempt = @ + 1, !.obs = slept]
        ELSE Unresolved(t, slept)

\* One pass of get_image_urls' retry loop, given the answers of the server,
\* and what download_image does with a returned value.
Resolve(t, ans, sz) ==
    LET t1 == [t EXCEPT !.page_reqs = @ + 1]
        obs == [NoObs EXCEPT !.resp = ans.status, !.page = ans.page]
    IN  CASE ans.status = "private" -> Unresolved(t1, obs)
          [] ans.status = "404" -> Unresolved(t1, obs)
          [] ans.status \in {"other", "exc"} -> RetryPage(t1, obs)
          [] ans.status = "ok" ->
                LET x == Extract(ans.page, sz)
                    seen == [obs EXCEPT !.aux = x.reqs, !.got = x.got]
                IN  IF x.exc THEN RetryPage(t1, [seen EXCEPT !.resp = "aux_exc"])
                    ELSE IF x.sizes = <<>>
                         THEN Unresolved(t1, [seen EXCEPT !.resp = "no_urls"])
                         ELSE [t1 EXCEPT !.pc = "download", !.urls = Names(x.sizes),
                                         !.ci = 1, !.attempt = 0, !.obs = seen]

\* Whether the page makes get_image_urls request the sizes page.
FollowsLink(ans) == ans.status = "ok" /\ Method1(ans.page) = <<>> /\ ans.page.link

ResolveAttempt(k) ==
    /\ cpc = "run"
    /\ th[k].pc = "resolve"
    /\ \E ans \in (IF site = "full" THEN PageAnswers ELSE PlainPageAnswers) :
        \E sz \in IF FollowsLink(ans) THEN SizesAnswers ELSE {NoSizesAnswer} :
            th' = [th EXCEPT ![k] = Resolve(@, ans, sz)]
    /\ UNCHANGED <<url, ensured, site, data_file, limit, num_workers, files, cpc, image_ids, results, inter_sleeps>>

\* NextUrl as it would be if leaving a URL ended the download.
NextUrl_GiveUp(t, obs) ==
    Returned(t, obs, [success |-> FALSE, result |-> AllFailedMsg, resolution |-> <<0, 0>>])

\* Both download loops leave a URL for the next one; after the last, the
\* final failure.
NextUrl(t, obs) ==
    IF t.ci < Len(Candidates(t.urls))
    THEN [t EXCEPT !.ci = @ + 1, !.attempt = 0, !.url_reqs = 0, !.obs = obs]
    ELSE Returned(t, obs, [success |-> FALSE, result |-> AllFailedMsg, resolution |-> <<0, 0>>])

\* RetryImage as it would be with one attempt more than max_retries.
RetryImage_OneMore(t, obs) ==
    LET slept == [obs EXCEPT !.slept = delay * (t.attempt + 1)]
    IN  IF t.attempt < max_retries
        THEN [t EXCEPT !.attempt = @ + 1, !.obs = slept]
        ELSE NextUrl(t, slept)

\* A failed attempt at a URL: the sleep, then the next attempt or the next URL.
RetryImage(t, obs) ==
    LET slept == [obs EXCEPT !.slept = delay * (t.attempt + 1)]
    IN  IF t.attempt + 1 < max_retries
        THEN [t EXCEPT !.attempt = @ + 1, !.obs = slept]
        ELSE NextUrl(t, slept)

\* Written as it would be without the os.remove of an empty file.
Written_EmptyKept(ans) ==
    IF ans.cut \/ ans.body \in {"image", "empty"}
    THEN [kind |-> ans.body, size |-> ans.size]
    ELSE NoFile

\* Written as it would be without the os.remove of a file that does not open.
Written_GarbageKept(ans) ==
    IF ans.cut \/ ans.body \in {"image", "garbage"}
    THEN [kind |-> ans.body, size |-> ans.size]
    ELSE NoFile

\* The file after a 200 answer's body was written and checked: a complete
\* body that is empty or does not open is removed, a cut one is left as
\* written.
Written(ans) ==
    IF ans.cut \/ ans.body = "image"
    THEN [kind |-> ans.body, size |-> ans.size]
    ELSE NoFile

\* One attempt at the current URL: the call's next state and the target file.
Download(t, name, f, ans) ==
    LET t1 == [t EXCEPT !.img_reqs = @ + 1, !.url_reqs = @ + 1]
        obs == [NoObs EXCEPT !.resp = ans.status]
    IN  CASE ans.status = "exc" -> [t |-> RetryImage(t1, obs), f |-> f]
          [] ans.status = "other" -> [t |-> RetryImage(t1, obs), f |-> f]
          [] ans.status = "410" -> [t |-> NextUrl(t1, obs), f |-> f]
          [] ans.status = "ok" ->
                IF ans.cut
                THEN [t |-> RetryImage(t1, [obs EXCEPT !.resp = "cut"]), f |-> Written(ans)]
                ELSE IF ans.body = "image"
                     THEN [t |-> Returned(t1, [obs EXCEPT !.resp = "image"],
                                     [success |-> TRUE, result |-> name, resolution |-> ans.size]),
                           f |-> Written(ans)]
                     ELSE [t |-> RetryImage(t1, [obs EXCEPT !.resp = ans.body]),
                           f |-> Written(ans)]

DownloadAttempt(k) ==
    /\ cpc = "run"
    /\ th[k].pc = "download"
    /\ \E ans \in (IF site = "full" THEN ImageAnswers ELSE PlainImageAnswers) :
        LET d == Download(th[k], Target(k), files[Target(k)], ans)
        IN  /\ th' = [th EXCEPT ![k] = d.t]
            /\ files' = [files EXCEPT ![Target(k)] = d.f]
    /\ UNCHANGED <<url, ensured, site, data_file, limit, num_workers, cpc, image_ids, results, inter_sleeps>>

\* Raise as it would be if the worker counted its own failure.
Raise_Counts(k) ==
    /\ cpc = "run"
    /\ th[k].pc \in {"resolve", "download"}
    /\ th' = [th EXCEPT ![k] = [@ EXCEPT !.pc = "raised", !.obs = [NoObs EXCEPT !.resp = "raised"]]]
    /\ results' = [results EXCEPT !.failed = @ + 1]
    /\ UNCHANGED <<url, ensured, site, data_file, limit, num_workers, files, cpc, image_ids, inter_sleeps>>

\* An exception leaves download_image.
Raise(k) ==
    /\ cpc = "run"
    /\ th[k].pc \in {"resolve", "download"}
    /\ th' = [th EXCEPT ![k] = [@ EXCEPT !.pc = "raised", !.obs = [NoObs EXCEPT !.resp = "raised"]]]
    /\ UNCHANGED <<url, ensured, site, data_file, limit, num_workers, files, cpc, image_ids, results, inter_sleeps>>

\* ------------------------------------------------------ crawl, continued
\* A call whose outcome crawl has taken: its locals are gone, and what is
\* kept is the answer that ended it.
Collected(t) == [Pending EXCEPT !.pc = "collected", !.obs = [NoObs EXCEPT !.resp = t.obs.resp]]

\* Aggregate as it would be without the except clause: the exception of one
\* record leaves crawl.
Aggregate_NoExcept(k) ==
    /\ cpc = "run"
    /\ num_workers <= 1
    /\ th[k].pc \in {"returned", "raised"}
    /\ IF th[k].pc = "raised"
       THEN /\ cpc' = "done"
            /\ UNCHANGED <<results, inter_sleeps, th>>
       ELSE /\ results' = Tally(results, image_ids[k], th[k])
            /\ inter_sleeps' = inter_sleeps + 1
            /\ th' = [th EXCEPT ![k] = Collected(@)]
            /\ cpc' = cpc
    /\ UNCHANGED <<url, ensured, site, data_file, limit, num_workers, files, image_ids>>

\* Aggregate as it would be if the sleep were skipped for a record whose
\* file was already there.
Aggregate_SleepOnWork(k) ==
    /\ cpc = "run"
    /\ num_workers <= 1
    /\ th[k].pc \in {"returned", "raised"}
    /\ results' = Tally(results, image_ids[k], th[k])
    /\ inter_sleeps' = IF th[k].obs.resp = "exists" THEN inter_sleeps ELSE inter_sleeps + 1
    /\ th' = [th EXCEPT ![k] = Collected(@)]
    /\ UNCHANGED <<url, ensured, site, data_file, limit, num_workers, files, cpc, image_ids>>

\* Sequential mode: the rest of the loop body once download_image is back.
Aggregate(k) ==
    /\ cpc = "run"
    /\ num_workers <= 1
    /\ th[k].pc \in {"returned", "raised"}
    /\ results' = Tally(results, image_ids[k], th[k])
    /\ inter_sleeps' = inter_sleeps + 1
    /\ th' = [th EXCEPT ![k] = Collected(@)]
    /\ UNCHANGED <<url, ensured, site, data_file, limit, num_workers, files, cpc, image_ids>>

\* Parallel mode: as_completed hands over a finished future.
Collect(k) ==
    /\ cpc = "run"
    /\ num_workers > 1
    /\ th[k].pc \in {"returned", "raised"}
    /\ results' = Tally(results, image_ids[k], th[k])
    /\ th' = [th EXCEPT ![k] = Collected(@)]
    /\ UNCHANGED <<url, ensured, site, data_file, limit, num_workers, files, cpc, image_ids, inter_sleeps>>

\* Every record is aggregated: the summary, and crawl returns results.
Finish ==
    /\ cpc = "run"
    /\ \A k \in Tasks : th[k].pc = "collected"
    /\ cpc' = "done"
    /\ UNCHANGED <<url, ensured, site, data_file, limit, num_workers, files, image_ids, results, th, inter_sleeps>>

\* ---------------------------------------------------------- specifications
Line111 == <<"a", " ", "1", "1", "1">>
Line222 == <<"b", " ", "2", "2", "2">>
LineShort == <<"c">>

CrawlLines == {Line111, LineShort}

\* The input file of the spec's end-to-end example.
ExampleFile == <<Line111, Line222>>

Targets == {filename(i) : i \in 0..(MaxLines - 1)}

InitialFiles == {NoFile} \cup ImageFiles \cup BrokenFiles

Start ==
    /\ cpc = "start"
    /\ image_ids = <<>>
    /\ results = [total |-> 0, success |-> 0, failed |-> 0,
                  private |-> 0, not_found |-> 0, resolutions |-> <<>>]
    /\ th = <<>>
    /\ inter_sleeps = 0
    /\ url = <<>>
    /\ ensured = <<>>

\* Spec: crawl over every file of up to MaxLines lines and the example
\* file, sequential and parallel, against a plain site.
Init ==
    /\ site = "plain"
    /\ data_file \in SeqsUpTo(CrawlLines, MaxLines) \cup {ExampleFile}
    /\ limit = None
    /\ num_workers \in {1, 2}
    /\ files \in [Targets -> {NoFile, [kind |-> "image", size |-> <<640, 480>>]}]
    /\ Start

\* FetchSpec: crawl over a file of one record, so one download_image call,
\* against the full site and every kind of file at the target.
FetchInit ==
    /\ site = "full"
    /\ data_file = <<Line111>>
    /\ limit = None
    /\ num_workers = 1
    /\ files \in [Targets -> {NoFile}] \cup
                 {[n \in Targets |-> IF n = filename(0) THEN f ELSE NoFile] :
                     f \in InitialFiles}
    /\ Start

Next ==
    \/ Parse
    \/ \E k \in Tasks : Begin(k)
    \/ \E k \in Tasks : ResolveAttempt(k)
    \/ \E k \in Tasks : DownloadAttempt(k)
    \/ \E k \in Tasks : Raise(k)
    \/ \E k \in Tasks : Aggregate(k)
    \/ \E k \in Tasks : Collect(k)
    \/ Finish

Spec == Init /\ [][Next]_vars

\* One record and one worker: crawl takes the sequential branch.
FetchNext ==
    \/ Parse
    \/ \E k \in Tasks : Begin(k)
    \/ \E k \in Tasks : ResolveAttempt(k)
    \/ \E k \in Tasks : DownloadAttempt(k)
    \/ \E k \in Tasks : Raise(k)
    \/ \E k \in Tasks : Aggregate(k)
    \/ Finish

FetchSpec == FetchInit /\ [][FetchNext]_vars

\* ParseSpec: parse_image_ids alone, over files of up to MaxLines lines of
\* every shape and every limit up to MaxLimit.
ParseLines ==
    {<<>>, <<"\n">>, <<" ", "\t", "\n">>, <<"a", "\n">>, <<" ", "a", " ", "\n">>,
     <<"a", " ", "1", "\n">>, <<"\t", "b", " ", " ", "2", "2">>,
     <<"a", "b", "\t", "3", " ", "x", "\n">>}

Limits == {None} \cup {{n} : n \in 0..MaxLimit}

ParseInit ==
    /\ site = "plain"
    /\ data_file \in SeqsUpTo(ParseLines, MaxLines)
    /\ limit \in Limits
    /\ num_workers = 1
    /\ files = [n \in Targets |-> NoFile]
    /\ Start

ParseSpec == ParseInit /\ [][Parse]_vars

\* SchemeSpec: _ensure_url_scheme alone, on URLs with every kind of start,
\* applied to a URL and then to its own value.
UrlHeads ==
    {<<>>,
     <<"/">>,
     <<"/", "/">>,
     <<"/", "/", "/">>,
     <<"h">>,
     <<"h", "t", "t", "p">>,
     <<"h", "t", "t", "p", ":">>,
     <<"h", "t", "t", "p", ":", "/">>,
     <<"h", "t", "t", "p", ":", "/", "/">>,
     <<"h", "t", "t", "p", "s">>,
     <<"h", "t", "t", "p", "s", ":">>,
     <<"h", "t", "t", "p", "s", ":", "/">>,
     <<"h", "t", "t", "p", "s", ":", "/", "/">>,
     <<"h", "t", "t", "p", "s", ":", "/", "/", "/">>,
     <<"H", "T", "T", "P", ":", "/", "/">>,
     <<"H", "t", "t", "p", "s", ":", "/", "/">>,
     <<"f", "t", "p", ":", "/", "/">>,
     <<" ", "/", "/">>,
     <<" ", "h", "t", "t", "p", ":", "/", "/">>,
     <<"h", "t", "t", "p", "x", ":", "/", "/">>}

UrlTails ==
    {<<>>,
     <<"x">>,
     <<"x", "/", "y", "_", "z", ".", "j", "p", "g">>,
     <<"/", "/", "x">>,
     <<"h", "t", "t", "p", ":", "/", "/", "x">>}

SchemeUrls == {h \o r : h \in UrlHeads, r \in UrlTails}

\* The number of times the function is applied in a row.
MaxApplications == 2

SchemeInit ==
    /\ site = "plain"
    /\ data_file = <<>>
    /\ limit = None
    /\ num_workers = 1
    /\ files = [n \in Targets |-> NoFile]
    /\ cpc = "start"
    /\ image_ids = <<>>
    /\ results = [total |-> 0, success |-> 0, failed |-> 0,
                  private |-> 0, not_found |-> 0, resolutions |-> <<>>]
    /\ th = <<>>
    /\ inter_sleeps = 0
    /\ url \in SchemeUrls
    /\ ensured = <<>>

\* One call of _ensure_url_scheme: on url, then on the value before.
EnsureScheme ==
    /\ Len(ensured) < MaxApplications
    /\ ensured' = Append(ensured,
                     _ensure_url_scheme(IF ensured = <<>> THEN url ELSE ensured[Len(ensured)]))
    /\ UNCHANGED <<url, site, data_file, limit, num_workers, files, cpc, image_ids, results,
                   th, inter_sleeps>>

SchemeSpec == SchemeInit /\ [][EnsureScheme]_vars

\* ------------------------------------------------------------------ claims
\* The calls whose outcome crawl has aggregated and that ended on answer r.
Aggregated(r) == {k \in Tasks : th[k].pc = "collected" /\ th[k].obs.resp = r}

\* The answer ended the call in the step that got it: no retry, no sleep.
EndsCall(r) ==
    \A k \in Tasks :
        th[k].obs.resp = r =>
            /\ th[k].pc \in {"returned", "collected"}
            /\ th[k].obs.slept = 0
            /\ th[k].pc = "returned" =>
                  (~th[k].ret.success /\ th[k].ret.resolution = <<0, 0>>)

\* C1: a page answer of HTTP 200 with the private marker ends get_image_urls
\* at once with None (no retry, no sleep), and once crawl has aggregated the
\* record it is counted as failed and in the 'private' counter.
C1_PrivateCounted ==
    /\ EndsCall("private")
    /\ results.failed >= Cardinality(Aggregated("private"))
    /\ results.private >= Cardinality(Aggregated("private"))

\* C2: a page answer of HTTP 404 ends get_image_urls at once with None (no
\* retry, no sleep), and once crawl has aggregated the record it is counted
\* as failed and in the 'not_found' counter.
C2_NotFoundCounted ==
    /\ EndsCall("404")
    /\ results.failed >= Cardinality(Aggregated("404"))
    /\ results.not_found >= Cardinality(Aggregated("404"))

\* C3: a sequential crawl of the example file whose first record is
\* downloaded and whose second record's page is a 404 ends with 00000.jpg
\* holding the downloaded image, no 00001.jpg, and success = 1, failed = 1,
\* not_found = 1.
C3_EndToEnd ==
    (/\ cpc = "done"
     /\ num_workers = 1
     /\ data_file = ExampleFile
     /\ th[1].obs.resp = "image"
     /\ th[2].obs.resp = "404")
    => /\ files[filename(0)].kind = "image"
       /\ results.resolutions = <<<<0, <<"1", "1", "1">>, files[filename(0)].size>>>>
       /\ files[filename(1)].kind = "none"
       /\ results.success = 1
       /\ results.failed = 1
       /\ results.not_found = 1

\* The calls in progress or returned and not yet aggregated.
Live == {k \in Tasks : th[k].pc \in {"resolve", "download", "returned"}}

NoRequest(t) == t.page_reqs = 0 /\ t.img_reqs = 0 /\ t.obs.aux = 0

\* C4, as claimed: when the target file exists as download_image is called,
\* the call makes no request and returns success.
C4_ExistingFileNoRequest ==
    \A k \in Live :
        th[k].found # "none" =>
            /\ NoRequest(th[k])
            /\ th[k].pc = "returned" /\ th[k].ret.success

\* C4, amended: when the target file exists and opens as an image as
\* download_image is called, the call makes no request and returns success
\* with the file's name and size, leaving the file as it was.
C4_ValidFileNoRequest ==
    \A k \in Live :
        th[k].found = "image" =>
            /\ NoRequest(th[k])
            /\ th[k].pc = "returned"
            /\ th[k].ret = [success |-> TRUE, result |-> Target(k),
                            resolution |-> files[Target(k)].size]
            /\ files[Target(k)].kind = "image"

C4_Witness ==
    \E k \in Tasks : th[k].found = "image" /\ th[k].pc = "returned"

\* A step of call k that is an image request answered r.
ImageStep(k, r) ==
    /\ th[k].pc = "download"
    /\ th'[k] # th[k]
    /\ th'[k].obs.resp = r

\* C5: an image request answered 410 is the last one to its URL: the step
\* makes that one request and sleeps no time, the call goes to the next
\* candidate in order with a fresh retry budget, and it ends (with the final
\* failure) only when no candidate is left; a first attempt answered 410
\* leaves its URL with exactly one request made. No URL is returned to.
C5_GoneSkipsUrl ==
    [][\A k \in Tasks :
        /\ ImageStep(k, "410") =>
              /\ th'[k].img_reqs = th[k].img_reqs + 1
              /\ th[k].url_reqs = th[k].attempt
              /\ th'[k].obs.slept = 0
              /\ IF th[k].ci < Len(Candidates(th[k].urls))
                 THEN /\ th'[k].pc = "download"
                      /\ th'[k].ci = th[k].ci + 1
                      /\ th'[k].attempt = 0
                      /\ th'[k].url_reqs = 0
                      /\ th'[k].urls = th[k].urls
                 ELSE /\ th'[k].pc = "returned"
                      /\ th'[k].ret.result = AllFailedMsg
        /\ (th[k].pc = "download" /\ th'[k].pc = "download") => th'[k].ci >= th[k].ci
      ]_vars

C5_Witness ==
    \E k \in Tasks :
        /\ th[k].pc = "download"
        /\ th[k].obs.resp = "410"
        /\ th[k].ci = 2
        /\ th[k].img_reqs = 1

\* C6: after an image request answered 200 with a zero-byte body, the call
\* has not returned success and no file is at the target path.
C6_EmptyBodyDiscarded ==
    \A k \in Live :
        th[k].obs.resp = "empty" =>
            /\ files[Target(k)].kind = "none"
            /\ ~(th[k].pc = "returned" /\ th[k].ret.success)

C6_Witness ==
    \E k \in Tasks :
        /\ th[k].obs.resp = "empty"
        /\ th[k].found = "garbage"
        /\ th[k].pc = "returned"

\* The steps a download_image call and its aggregation can still take, at
\* most: one per attempt left at the current URL and per attempt at each URL
\* after it, one for the return, one for the aggregation.
MaxCandidates == Len(size_priority) + Cardinality(SizeNames)

CallRank(t) ==
    CASE t.pc = "collected" -> 0
      [] t.pc \in {"returned", "raised"} -> 1
      [] t.pc = "download" ->
            1 + (max_retries - t.attempt) + (Len(Candidates(t.urls)) - t.ci) * max_retries
      [] t.pc = "resolve" -> 2 + MaxCandidates * max_retries + (max_retries - t.attempt)
      [] t.pc = "pending" -> 3 + MaxCandidates * max_retries + max_retries

RECURSIVE SumRanks(_)
SumRanks(k) == IF k = 0 THEN 0 ELSE CallRank(th[k]) + SumRanks(k - 1)

\* The steps crawl can still take, at most.
Rank ==
    CASE cpc = "done" -> 0
      [] cpc = "run" -> 1 + SumRanks(Len(th))
      [] cpc = "start" -> 2 + Len(data_file) * CallRank(Pending)

\* C7: no outcome of one record aborts the run. Until crawl has returned
\* some step is possible and every step brings the return nearer, so crawl
\* ends; and when it has ended every record of the parsed list is aggregated
\* and success + failed = total, whatever each download_image call returned
\* or raised, in sequential and in parallel mode.
C7_RunCompletes ==
    /\ [](cpc = "done" =>
            /\ \A k \in Tasks : th[k].pc = "collected"
            /\ results.success + results.failed = results.total
            /\ results.total = Len(image_ids))
    /\ [](cpc # "done" => ENABLED Next)
    /\ [][Rank' < Rank /\ Rank' >= 0]_vars

C7_Witness ==
    /\ cpc = "done"
    /\ num_workers > 1
    /\ Len(image_ids) = 2
    /\ th[1].obs.resp = "raised"
    /\ th[2].obs.resp = "image"

\* The fields of a line, read off the line itself: a field starts at a
\* non-space character that follows a space or starts the line, and runs to
\* the last character before the next space.
FieldStarts(line) ==
    {i \in 1..Len(line) : ~IsSpace(line[i]) /\ (i = 1 \/ IsSpace(line[i - 1]))}

FieldAt(line, start) ==
    LET end == CHOOSE j \in start..Len(line) :
                  /\ \A m \in start..j : ~IsSpace(line[m])
                  /\ (j = Len(line) \/ IsSpace(line[j + 1]))
    IN  SubSeq(line, start, end)

SecondField(line) ==
    LET first == CHOOSE i \in FieldStarts(line) : \A j \in FieldStarts(line) : i <= j
        rest == FieldStarts(line) \ {first}
    IN  FieldAt(line, CHOOSE i \in rest : \A j \in rest : i <= j)

\* The lines a limit leaves to be read: all of them with no limit, the first
\* n with a limit n >= 1 (limit 0 is C9's case and is left open here).
Readable(i) == limit = None \/ (IntOf(limit) >= 1 /\ i < IntOf(limit))

\* C8: every record parse_image_ids produces is (line index, second field)
\* of a line with at least two fields, so a line with fewer than two fields
\* gives no record; the records are in line order, so no line gives two;
\* and every line with at least two fields that the limit leaves to be read
\* gives its record.
C8_RecordsAreSecondFields ==
    cpc = "run" =>
        /\ \A r \in 1..Len(image_ids) :
              /\ image_ids[r].idx \in 0..(Len(data_file) - 1)
              /\ Cardinality(FieldStarts(data_file[image_ids[r].idx + 1])) >= 2
              /\ image_ids[r].photo_id = SecondField(data_file[image_ids[r].idx + 1])
        /\ \A r, q \in 1..Len(image_ids) : r < q => image_ids[r].idx < image_ids[q].idx
        /\ \A i \in 0..(Len(data_file) - 1) :
              (Readable(i) /\ Cardinality(FieldStarts(data_file[i + 1])) >= 2) =>
                  \E r \in 1..Len(image_ids) : image_ids[r].idx = i

C8_Witness ==
    /\ cpc = "run"
    /\ limit = None
    /\ Len(data_file) = 2
    /\ Cardinality(FieldStarts(data_file[1])) = 1
    /\ Cardinality(FieldStarts(data_file[2])) = 3
    /\ Len(image_ids) = 1
    /\ image_ids[1].idx = 1

\* C9: with an integer limit n >= 0, n = 0 included, only the first n lines
\* are consumed: every record has position < n and there are at most n
\* records; with no limit every line is consumed.
C9_LimitTruncates ==
    cpc = "run" =>
        IF limit = None
        THEN \A i \in 0..(Len(data_file) - 1) :
                Cardinality(FieldStarts(data_file[i + 1])) >= 2 =>
                    \E r \in 1..Len(image_ids) : image_ids[r].idx = i
        ELSE /\ \A r \in 1..Len(image_ids) : image_ids[r].idx < IntOf(limit)
             /\ Len(image_ids) <= IntOf(limit)

\* A step of call k that is a page request answered r.
PageStep(k, r) ==
    /\ th[k].pc = "resolve"
    /\ th'[k] # th[k]
    /\ th'[k].obs.resp = r

\* The page attempts that are retried: a status other than 200 and 404, a
\* transport exception of the page request, and (amended) a 200 page whose
\* follow-up request raised.
PageFailures == {"other", "exc", "aux_exc"}

\* C10, as claimed: get_image_urls goes on retrying only after a status
\* other than 200 and 404 or a transport exception of the page request; an
\* attempt whose page request got a 200 or a 404 ends the retrying.
C10_OnlyFailuresRetry ==
    \A k \in Tasks :
        (th[k].pc = "resolve" /\ th[k].page_reqs > 0) => th[k].obs.resp \in {"other", "exc"}

\* C10, amended: at most max_retries page requests; the k-th failed attempt
\* (a status other than 200 and 404, a transport exception, or a 200 page
\* whose follow-up sizes request raised) is followed by a sleep of delay * k
\* and, when k = max_retries, by the return of None; an attempt that gets a
\* 404, or a 200 whose handling raises nothing, ends the retrying at once
\* without a sleep.
C10_RetryPolicy ==
    /\ [](\A k \in Tasks : th[k].page_reqs <= max_retries)
    /\ [][\A k \in Tasks :
            /\ (\E r \in PageFailures : PageStep(k, r)) =>
                  /\ th'[k].page_reqs = th[k].page_reqs + 1
                  /\ th'[k].page_reqs = th[k].attempt + 1
                  /\ th'[k].obs.slept = delay * th'[k].page_reqs
                  /\ IF th'[k].page_reqs = max_retries
                     THEN /\ th'[k].pc = "returned"
                          /\ th'[k].ret = [success |-> FALSE, result |-> NoUrlsMsg,
                                           resolution |-> <<0, 0>>]
                     ELSE /\ th'[k].pc = "resolve"
                          /\ th'[k].attempt = th[k].attempt + 1
            /\ (\E r \in {"404", "private", "no_urls", "ok"} : PageStep(k, r)) =>
                  /\ th'[k].page_reqs = th[k].page_reqs + 1
                  /\ th'[k].pc \in {"returned", "download"}
                  /\ th'[k].obs.slept = 0
         ]_vars

C10_Witness ==
    \E k \in Tasks :
        /\ th[k].pc = "returned"
        /\ th[k].page_reqs = max_retries
        /\ th[k].obs.resp = "other"
        /\ th[k].obs.slept = delay * max_retries
        /\ max_retries > 1

\* The place of a label in the order download_image is to try the sizes in;
\* a label outside the list comes after all of it.
PriorityOf(name) ==
    CASE name = "Large HD" -> 1
      [] name = "Large" -> 2
      [] name = "Medium 800" -> 3
      [] name = "Medium 640" -> 4
      [] name = "Medium" -> 5
      [] name = "OpenGraph" -> 6
      [] name = "TwitterCard" -> 7
      [] name = "Small 320" -> 8
      [] name = "Small" -> 9
      [] OTHER -> 10

\* C11: the URLs a call tries are the resolved labels, each once, the listed
\* ones in the order Large HD, Large, Medium 800, Medium 640, Medium,
\* OpenGraph, TwitterCard, Small 320, Small and the unlisted ones after all
\* of them; the call leaves a URL for the next only on a 410 or with the
\* URL's retry budget spent, never goes back, and after the return on a
\* verified image makes no further request.
C11_PriorityOrder ==
    /\ [](\A k \in Tasks :
            th[k].pc = "download" =>
                LET c == Candidates(th[k].urls)
                IN  /\ th[k].ci \in 1..Len(c)
                    /\ \A i \in 1..Len(th[k].urls) : \E j \in 1..Len(c) : c[j] = th[k].urls[i]
                    /\ \A j \in 1..Len(c) : \E i \in 1..Len(th[k].urls) : c[j] = th[k].urls[i]
                    /\ \A i, j \in 1..Len(c) :
                          i < j => /\ c[i] # c[j]
                                   /\ PriorityOf(c[i]) <= PriorityOf(c[j])
                                   /\ PriorityOf(c[i]) = PriorityOf(c[j]) => PriorityOf(c[i]) = 10)
    /\ [][\A k \in Tasks :
            /\ (th[k].pc = "download" /\ th'[k].pc = "download") =>
                  /\ th'[k].urls = th[k].urls
                  /\ \/ th'[k].ci = th[k].ci
                     \/ /\ th'[k].ci = th[k].ci + 1
                        /\ \/ th'[k].obs.resp = "410"
                           \/ th[k].url_reqs + 1 = max_retries
            /\ (th[k].pc = "download" /\ th'[k].pc = "returned" /\ ~th'[k].ret.success) =>
                  /\ th[k].ci = Len(Candidates(th[k].urls))
                  /\ \/ th'[k].obs.resp = "410"
                     \/ th[k].url_reqs + 1 = max_retries
            /\ (th[k].pc = "download" /\ th'[k].pc = "returned" /\ th'[k].ret.success) =>
                  /\ th'[k].obs.resp = "image"
                  /\ th'[k].img_reqs = th[k].img_reqs + 1
            /\ th[k].pc = "returned" => (th'[k] = th[k] \/ th'[k].pc = "collected")
         ]_vars

\* A call at its last URL, an unlisted label that the dict holds first.
C11_Witness ==
    \E k \in Tasks :
        /\ th[k].pc = "download"
        /\ Len(th[k].urls) >= 3
        /\ th[k].urls[1] = "Original"
        /\ th[k].ci = Len(th[k].urls)
        /\ Candidates(th[k].urls)[1] = "Large HD"
        /\ Candidates(th[k].urls)[th[k].ci] = "Original"

\* The answers that end a call with success: the file was there, or an
\* image was downloaded.
Successes == {"exists", "image"}

\* What the outcome of one call adds to the counters in the sequential loop.
Delta(t) ==
    LET ok == t.pc = "returned" /\ t.ret.success
        bad == t.pc = "returned" /\ ~t.ret.success
        private == bad /\ Contains(lower(t.ret.result), PrivateNeedle)
    IN  [success |-> IF ok THEN 1 ELSE 0,
         failed |-> IF ok THEN 0 ELSE 1,
         private |-> IF private THEN 1 ELSE 0,
         not_found |-> IF bad /\ ~private /\ Contains(lower(t.ret.result), NotFoundNeedle)
                       THEN 1 ELSE 0]

\* Step of crawl that takes the outcome of call k.
Aggregates(k) == th[k].pc \in {"returned", "raised"} /\ th'[k].pc = "collected"

\* C12: once set up, the counters change only in the step in which crawl
\* takes the outcome of a finished call, one call per step, and by what that call's
\* outcome alone adds in the sequential loop; so at every moment, in both
\* modes and whatever the order in which calls finish, success and failed
\* count the aggregated calls that succeeded and that did not, and the
\* resolutions list holds one entry per success (in the order of
\* aggregation).
C12_CountsFromOutcomes ==
    /\ [](/\ results.success =
                Cardinality({k \in Tasks : th[k].pc = "collected" /\ th[k].obs.resp \in Successes})
          /\ results.failed =
                Cardinality({k \in Tasks : th[k].pc = "collected" /\ th[k].obs.resp \notin Successes})
          /\ Len(results.resolutions) = results.success
          /\ {results.resolutions[i] : i \in 1..Len(results.resolutions)} =
                {<<image_ids[k].idx, image_ids[k].photo_id, files[Target(k)].size>> :
                    k \in {j \in Tasks : th[j].pc = "collected" /\ th[j].obs.resp \in Successes}})
    /\ [][/\ (cpc = "run" /\ \A k \in Tasks : ~Aggregates(k)) => results' = results
          /\ \A k \in Tasks :
                Aggregates(k) =>
                    /\ \A j \in Tasks \ {k} : th'[j] = th[j]
                    /\ results'.success = results.success + Delta(th[k]).success
                    /\ results'.failed = results.failed + Delta(th[k]).failed
                    /\ results'.private = results.private + Delta(th[k]).private
                    /\ results'.not_found = results.not_found + Delta(th[k]).not_found
                    /\ results'.total = results.total
         ]_vars

\* A parallel run that took the second record's success before the first's.
C12_Witness ==
    /\ cpc = "done"
    /\ num_workers > 1
    /\ results.success = 2
    /\ results.resolutions[1][1] = 1
    /\ results.resolutions[2][1] = 0

\* The number a file name's digits before ".jpg" stand for.
DigitValue(c) ==
    CASE c = "0" -> 0 [] c = "1" -> 1 [] c = "2" -> 2 [] c = "3" -> 3 [] c = "4" -> 4
      [] c = "5" -> 5 [] c = "6" -> 6 [] c = "7" -> 7 [] c = "8" -> 8 [] c = "9" -> 9

RECURSIVE DigitsValue(_)
DigitsValue(s) ==
    IF s = <<>> THEN 0 ELSE 10 * DigitsValue(SubSeq(s, 1, Len(s) - 1)) + DigitValue(s[Len(s)])

\* name is {position:05d}.jpg
IsNameOf(name, position) ==
    /\ Len(name) >= 9
    /\ SubSeq(name, Len(name) - 3, Len(name)) = <<".", "j", "p", "g">>
    /\ DigitsValue(SubSeq(name, 1, Len(name) - 4)) = position
    /\ Len(name) > 9 => name[1] # "0"

\* Positions around the widths at which the decimal grows.
SamplePositions == {0, 1, 9, 10, 99, 100, 99999, 100000}

\* C13: a record's position is the 0-based index of its line in the input
\* file, lines that give no record counted, and its output path is
\* {position:05d}.jpg; the paths of distinct records differ, and a step that
\* writes or removes a file is a step of the one call whose target the file
\* is, so no two calls touch the same file.
C13_DistinctTargets ==
    /\ [](/\ \A i \in SamplePositions : IsNameOf(filename(i), i)
          /\ \A k \in Tasks :
                LET i == image_ids[k].idx
                IN  /\ i \in 0..(Len(data_file) - 1)
                    /\ Cardinality(FieldStarts(data_file[i + 1])) >= 2
                    /\ image_ids[k].photo_id = SecondField(data_file[i + 1])
                    /\ IsNameOf(Target(k), i)
          /\ \A j, k \in Tasks : j # k => Target(j) # Target(k))
    /\ [][\A n \in DOMAIN files :
            files'[n] # files[n] =>
                \E k \in Tasks :
                    /\ Target(k) = n
                    /\ th[k].pc = "download"
                    /\ th'[k] # th[k]
                    /\ \A j \in Tasks \ {k} : th'[j] = th[j]
         ]_vars

\* Two workers at once: the second record's file is written while the first
\* record's call is still in its download loop.
C13_Witness ==
    /\ num_workers > 1
    /\ Len(image_ids) = 2
    /\ th[1].pc = "download"
    /\ th[2].pc = "returned"
    /\ th[2].obs.resp = "image"
    /\ files[Target(2)].kind = "image"
    /\ files[Target(1)].kind = "none"

\* The kinds of file that exist and do not open as an image.
Corrupt == {"garbage", "empty"}

\* C14: a call that finds a file at its target that does not open as an
\* image starts as a call that finds none (get_image_urls' first attempt,
\* nothing requested yet, nothing returned); it returns success only after
\* a page request and an image request answered with an image, and then the
\* target holds that image, not the corrupt content; it fails with the
\* results a call on a missing file fails with.
C14_CorruptFileRedownloaded ==
    /\ [](\A k \in Live :
            th[k].found \in Corrupt =>
                /\ th[k].obs.resp # "exists"
                /\ th[k].pc = "returned" =>
                      IF th[k].ret.success
                      THEN /\ th[k].obs.resp = "image"
                           /\ th[k].page_reqs >= 1
                           /\ th[k].img_reqs >= 1
                           /\ files[Target(k)].kind = "image"
                           /\ th[k].ret = [success |-> TRUE, result |-> Target(k),
                                           resolution |-> files[Target(k)].size]
                      ELSE /\ th[k].page_reqs >= 1
                           /\ th[k].ret.result \in {NoUrlsMsg, AllFailedMsg}
                           /\ th[k].ret.result = AllFailedMsg <=> th[k].img_reqs >= 1)
    /\ [][\A k \in Tasks :
            (th[k].pc = "pending" /\ th'[k].pc # "pending" /\ files[Target(k)].kind # "image") =>
                /\ th'[k] = [Pending EXCEPT !.pc = "resolve",
                                            !.obs = [NoObs EXCEPT !.resp = "entered"],
                                            !.found = files[Target(k)].kind]
                /\ files' = files
         ]_vars

C14_Witness ==
    \E k \in Tasks :
        /\ th[k].found = "garbage"
        /\ th[k].pc = "returned"
        /\ th[k].ret.success
        /\ files[Target(k)] = [kind |-> "image", size |-> <<1024, 768>>]

\* C15: whenever download_image has returned success the target holds a
\* file that opens as an image, the returned resolution is that file's size
\* and the returned result its name; whenever it has returned failure the
\* returned resolution is (0, 0). The attempt that gets a 200 answer whose
\* body is not empty and does not open removes the file, sleeps delay *
\* (its number at that URL) and goes on as a failed attempt, never returning
\* success.
C15_SuccessMeansImage ==
    /\ [](\A k \in Live :
            /\ th[k].pc = "returned" =>
                  IF th[k].ret.success
                  THEN /\ files[Target(k)].kind = "image"
                       /\ files[Target(k)].size \in Dims
                       /\ th[k].ret.resolution = files[Target(k)].size
                       /\ th[k].ret.result = Target(k)
                       /\ th[k].obs.resp \in Successes
                  ELSE th[k].ret.resolution = <<0, 0>>
            /\ th[k].obs.resp = "garbage" =>
                  /\ files[Target(k)].kind = "none"
                  /\ ~(th[k].pc = "returned" /\ th[k].ret.success))
    /\ [][\A k \in Tasks :
            ImageStep(k, "garbage") =>
                /\ th'[k].img_reqs = th[k].img_reqs + 1
                /\ th'[k].obs.slept = delay * (th[k].attempt + 1)
                /\ IF th[k].attempt + 1 < max_retries
                   THEN /\ th'[k].pc = "download"
                        /\ th'[k].ci = th[k].ci
                        /\ th'[k].attempt = th[k].attempt + 1
                   ELSE \/ th'[k].pc = "download" /\ th'[k].ci = th[k].ci + 1
                        \/ th'[k].pc = "returned" /\ th'[k].ret.result = AllFailedMsg
         ]_vars

\* An undecodable body at the last attempt of the last URL, over a file that
\* was an empty one when the call began.
C15_Witness ==
    \E k \in Tasks :
        /\ th[k].obs.resp = "garbage"
        /\ th[k].pc = "returned"
        /\ th[k].found = "empty"
        /\ th[k].obs.slept = delay * max_retries

\* C16: whenever download_image has returned failure, no file is at the
\* record's target path, whatever the attempts' outcomes were and also when
\* a corrupt file was at the path before the call.
C16_FailureLeavesNoFile ==
    \A k \in Live :
        (th[k].pc = "returned" /\ ~th[k].ret.success) => files[Target(k)].kind = "none"

\* The failed image attempts that are retried: a status other than 200 and
\* 410, an exception of the request or of the body's stream, an empty body,
\* an undecodable body.
ImageFailures == {"other", "exc", "cut", "empty", "garbage"}

\* C17: a call makes at most max_retries requests to one URL and at most
\* (number of candidate URLs) * max_retries image requests in all; the k-th
\* attempt at a URL, when it fails otherwise than by a 410, is followed by a
\* sleep of delay * k, and a 410 by none; a call in its download loop can
\* always take its next step and every step brings its end nearer, so it
\* terminates; and the failure it returns after image requests is "Failed
\* to download after trying all available URLs", at the last candidate.
C17_ImageRetryBound ==
    /\ [](\A k \in Live :
            /\ th[k].url_reqs <= max_retries
            /\ th[k].img_reqs <= Len(Candidates(th[k].urls)) * max_retries
            /\ th[k].pc = "download" =>
                  /\ th[k].url_reqs = th[k].attempt
                  /\ th[k].attempt < max_retries
                  /\ th[k].img_reqs <= (th[k].ci - 1) * max_retries + th[k].url_reqs
                  /\ ENABLED DownloadAttempt(k)
            /\ (th[k].pc = "returned" /\ ~th[k].ret.success /\ th[k].urls # <<>>) =>
                  /\ th[k].ret.result = AllFailedMsg
                  /\ th[k].ci = Len(Candidates(th[k].urls)))
    /\ [][\A k \in Tasks :
            /\ (\E r \in ImageFailures : ImageStep(k, r)) =>
                  /\ th'[k].img_reqs = th[k].img_reqs + 1
                  /\ th'[k].obs.slept = delay * (th[k].url_reqs + 1)
            /\ ImageStep(k, "410") => th'[k].obs.slept = 0
            /\ th[k].pc = "download" =>
                  (th'[k] = th[k] \/ CallRank(th'[k]) < CallRank(th[k]))
         ]_vars

\* A call that spent the whole budget of two URLs or more.
C17_Witness ==
    \E k \in Tasks :
        /\ th[k].pc = "returned"
        /\ th[k].ret.result = AllFailedMsg
        /\ Len(th[k].urls) >= 2
        /\ th[k].img_reqs = Len(th[k].urls) * max_retries
        /\ th[k].obs.slept = delay * max_retries

\* Result strings to classify: the two download_image returns, and strings
\* that hold one needle, both, or none.
SampleMessages ==
    {NoUrlsMsg, AllFailedMsg, <<>>, PrivateNeedle, NotFoundNeedle,
     PrivateNeedle \o <<",", " ">> \o NotFoundNeedle,
     NotFoundNeedle \o <<" ", "(">> \o PrivateNeedle \o <<")">>,
     <<"U", "R", "L", " ">> \o NotFoundNeedle}

ZeroCounts ==
    [total |-> 0, success |-> 0, failed |-> 0, private |-> 0, not_found |-> 0,
     resolutions |-> <<>>]

\* The lines of the input file that give a record.
RecordLines == {i \in 1..Len(data_file) : Cardinality(FieldStarts(data_file[i])) >= 2}

\* C18: from the moment crawl has parsed the file, success + failed is the
\* number of records aggregated so far, private + not_found <= failed,
\* len(resolutions) = success, and total is the number of parsed records
\* (the lines that give a record, not all lines) and never changes; one
\* aggregation adds one to success or to failed, and with a failure at most
\* one to private and not_found together, whatever the result string.
C18_CounterInvariant ==
    /\ [](/\ \A m \in SampleMessages :
                LET r == Classify(ZeroCounts, m)
                IN  /\ r.failed = 1 /\ r.success = 0 /\ r.total = 0
                    /\ r.private + r.not_found <= 1
                    /\ r.private = 1 <=> Contains(m, PrivateNeedle)
          /\ cpc # "start" =>
                /\ results.success + results.failed =
                      Cardinality({k \in Tasks : th[k].pc = "collected"})
                /\ results.private >= 0 /\ results.not_found >= 0
                /\ results.private + results.not_found <= results.failed
                /\ Len(results.resolutions) = results.success
                /\ results.total = Len(image_ids)
                /\ results.total = Cardinality(RecordLines))
    /\ [][cpc = "run" =>
            /\ results'.total = results.total
            /\ results'.success - results.success \in {0, 1}
            /\ results'.failed - results.failed \in {0, 1}
            /\ results'.private - results.private \in {0, 1}
            /\ results'.not_found - results.not_found \in {0, 1}
            /\ (results'.success - results.success) + (results'.failed - results.failed) =
                  Cardinality({k \in Tasks : Aggregates(k)})
            /\ (results'.private - results.private) + (results'.not_found - results.not_found)
                  <= results'.failed - results.failed
         ]_vars

\* A finished run over two lines of which one gave a record, and it failed.
C18_Witness ==
    /\ cpc = "done"
    /\ Len(data_file) = 2
    /\ results.total = 1
    /\ results.failed = 1
    /\ image_ids[1].idx = 1

\* The labels of Method 3.
MetaNames == {"OpenGraph", "TwitterCard"}

\* The URL has a server path component and a secret in its file name.
YieldsServerSecret(u) == u.parts >= 3 /\ u.fparts >= 2 /\ u.server # "" /\ u.secret # ""

\* What a step of get_image_urls on an HTTP 200 non-private page shows: the
\* page was handled to the end with URLs found (ok) or none (no_urls), or a
\* follow-up request raised (aux_exc).
Handled == {"ok", "no_urls", "aux_exc"}

\* C19, as claimed: after an attempt on an HTTP 200 non-private page either
\* some method found a URL and the download loop is entered, or none did and
\* the call has returned without a retry or a sleep.
C19_AbsentOnlyWhenNothingFound ==
    \A k \in Live :
        th[k].obs.resp \in Handled =>
            \/ th[k].pc = "download" /\ th[k].obs.got # <<>>
            \/ th[k].pc = "returned" /\ th[k].obs.got = <<>> /\ th[k].obs.slept = 0

\* C19, amended: on an HTTP 200 non-private page the sizes link is followed
\* exactly when the page has one and the image tags gave no URL; the meta
\* tags are used only when neither the image tags nor the sizes pages gave a
\* URL; "Large HD" is added only when a URL found so far has both a server
\* and a secret component; when no follow-up request raises, the result is
\* None exactly when no method found a URL, and then the call returns at
\* once without a retry, else the result holds the labels found; when a
\* follow-up request raises, the attempt counts as failed and is retried
\* after its sleep.
C19_ResolverOrdering ==
    [][\A k \in Tasks :
        \A r \in Handled :
            PageStep(k, r) =>
                LET o == th'[k].obs
                    names == {o.got[i].name : i \in 1..Len(o.got)}
                IN  /\ o.aux > 0 <=> (o.page.img = <<>> /\ o.page.link)
                    /\ o.page.img # <<>> => (names = {Method1Names[i] : i \in 1..Len(Method1Names)})
                    /\ names \cap MetaNames # {} =>
                          /\ o.page.img = <<>>
                          /\ names \subseteq MetaNames
                          /\ "OpenGraph" \in names <=> o.page.og # <<>>
                          /\ "TwitterCard" \in names <=> o.page.tw # <<>>
                    /\ (r # "aux_exc" /\ names = {}) => (o.page.og = <<>> /\ o.page.tw = <<>>)
                    /\ r = "no_urls" =>
                          /\ names = {}
                          /\ th'[k].pc = "returned"
                          /\ th'[k].ret = [success |-> FALSE, result |-> NoUrlsMsg,
                                           resolution |-> <<0, 0>>]
                          /\ o.slept = 0
                    /\ r = "ok" =>
                          /\ names # {}
                          /\ th'[k].pc = "download"
                          /\ o.slept = 0
                          /\ {th'[k].urls[i] : i \in 1..Len(th'[k].urls)} \ {"Large HD"} = names
                          /\ (\E i \in 1..Len(th'[k].urls) : th'[k].urls[i] = "Large HD") =>
                                \E i \in 1..Len(o.got) : YieldsServerSecret(o.got[i].url)
                    /\ r = "aux_exc" =>
                          /\ o.aux > 0
                          /\ o.slept = delay * (th[k].attempt + 1)
                          /\ th'[k].pc \in {"resolve", "returned"}
      ]_vars

\* The sizes link was followed, two size pages gave a URL, and "Large HD"
\* was added to them.
C19_Witness ==
    \E k \in Tasks :
        /\ th[k].pc = "download"
        /\ th[k].obs.resp = "ok"
        /\ th[k].obs.aux = 3
        /\ th[k].obs.page.og # <<>>
        /\ th[k].urls = <<"Original", "Large", "Large HD">>

\* C20: in sequential mode a record's call starts only when every record
\* before it in the input is aggregated, so one record is in work at a time,
\* and crawl has made exactly one time.sleep(delay) per aggregated record,
\* whatever the record's outcome (file already there, failure, exception),
\* made in the step that aggregates it; in parallel mode crawl makes no
\* such sleep.
C20_SequentialPacing ==
    /\ [](cpc # "start" =>
            /\ \A j, k \in Tasks : j < k => image_ids[j].idx < image_ids[k].idx
            /\ IF num_workers > 1
               THEN inter_sleeps = 0
               ELSE /\ inter_sleeps = Cardinality({k \in Tasks : th[k].pc = "collected"})
                    /\ \A k \in Tasks :
                          th[k].pc # "pending" => \A j \in 1..(k - 1) : th[j].pc = "collected"
                    /\ Cardinality({k \in Tasks : th[k].pc \notin {"pending", "collected"}}) <= 1)
    /\ [][cpc = "run" =>
            inter_sleeps' = inter_sleeps +
                (IF num_workers > 1 THEN 0 ELSE Cardinality({k \in Tasks : Aggregates(k)}))
         ]_vars

\* A finished sequential run of two records, one skipped for its file, one
\* failed on a 404.
C20_Witness ==
    /\ cpc = "done"
    /\ num_workers = 1
    /\ Len(image_ids) = 2
    /\ th[1].obs.resp = "exists"
    /\ th[2].obs.resp = "404"
    /\ inter_sleeps = 2

\* s begins with the characters of p.
BeginsWith(s, p) == \A j \in 1..Len(p) : j <= Len(s) /\ s[j] = p[j]

HasScheme(s) == BeginsWith(s, <<"h", "t", "t", "p", ":", "/", "/">>) \/ BeginsWith(s, <<"h", "t", "t", "p", "s", ":", "/", "/">>)

\* The argument of the i-th call of _ensure_url_scheme.
Argument(i) == IF i = 1 THEN url ELSE ensured[i - 1]

\* C21: _ensure_url_scheme returns a URL that starts with '//' with
\* 'https:' before it, a URL that starts with neither 'http://' nor
\* 'https://' (and not with '//') with 'https://' before it, and any other
\* URL unchanged; its value always starts with 'http://' or 'https://'; and
\* applied to its own value it returns that value.
C21_SchemeEnsured ==
    \A i \in 1..Len(ensured) :
        LET u == Argument(i)
            v == ensured[i]
        IN  /\ BeginsWith(u, <<"/", "/">>) => v = <<"h", "t", "t", "p", "s", ":">> \o u
            /\ (~BeginsWith(u, <<"/", "/">>) /\ ~HasScheme(u)) => v = <<"h", "t", "t", "p", "s", ":", "/", "/">> \o u
            /\ HasScheme(u) => v = u
            /\ HasScheme(v)
            /\ i >= 2 => v = u

\* A protocol-relative URL, changed by the first call and left by the second.
C21_Witness ==
    /\ Len(ensured) >= 2
    /\ BeginsWith(url, <<"/", "/">>)
    /\ Len(url) > 2
    /\ ensured[1] = <<"h", "t", "t", "p", "s", ":">> \o url
    /\ ensured[2] = ensured[1]

====
